---- MODULE Spec2Model ----
(***************************************************************************)
(* Check lifecycle engine of the banking system: the checks and users      *)
(* tables (database/schema.py) and the operations of CheckManager          *)
(* (managers/check_manager.py).  Every operation is an operator from the   *)
(* tables, the clock reading and the arguments to its outcomes: what it    *)
(* returns and the tables it commits.  The actions commit an outcome.      *)
(***************************************************************************)
EXTENDS Integers, Sequences, FiniteSets, TLC

VARIABLES users, checks, lastCheckId, now, inflight

vars == <<users, checks, lastCheckId, now, inflight>>

-----------------------------------------------------------------------------
(* Bounds of the model *)

\* number of rows the users table may hold
MaxUsers == 2
\* number of checks that may ever be issued
MaxChecks == 2
\* clock readings per second (datetime has sub-second resolution)
TicksPerSecond == 2

\* SQL NULL / Python None for an integer column or argument
NULL == -1

SecondsPerDay == 86400

\* the revocation window
WindowSeconds == 3600

\* the readings datetime.now() takes: the start and a reading more than one
\* revocation window later
Instants == {0, WindowSeconds * TicksPerSecond + 1}

\* the readings taken around the end of the revocation window: one tick is
\* half a second, so the last reading is 3600.5 s after the first
WindowInstants ==
    {0, 1, WindowSeconds * TicksPerSecond, WindowSeconds * TicksPerSecond + 1,
     WindowSeconds * TicksPerSecond + 2}

\* user names given to the operations (sequences of characters)
NameInputs == { <<"b", "o">>, <<" ", "B">> }

\* the name argument left out (None)
NoName == <<"?">>

\* issuer_name arguments of accept_check and deny_check; <<>> is ""
IssuerNameInputs == NameInputs \cup {NoName, <<>>}

\* amounts given to issue_check
Amounts == {500}

\* amounts of any sign: issue_check validates none
AnyAmounts == {-5, 0, 500}

\* custom_date arguments of issue_check; NULL is None
CustomDates == {NULL, 7}

DaysToMaturity == {0, 1}

\* user ids a caller may present; MaxUsers + 1 never has a users row
CallerIds == 1 .. MaxUsers + 1

\* check_id arguments; 0 is falsy in Python, as None is
CheckIdInputs == 0 .. MaxChecks

\* check_id arguments, None included
CheckArgs == CheckIdInputs \cup {NULL}

\* (check_id, issuer_name) arguments of accept_check and deny_check: a check
\* id alone, an issuer name alone, neither, and both
LookupArgs ==
    {<<c, NoName>> : c \in CheckIdInputs \cup {NULL}}
        \cup {<<NULL, n>> : n \in IssuerNameInputs}
        \cup {<<1, n>> : n \in NameInputs}

\* CHECK (status IN (...)) of the checks table
Statuses == {"PENDING", "ACCEPTED", "DENIED", "FORWARDED", "TOKENIZED"}

-----------------------------------------------------------------------------
(* Strings *)


Lower(s) ==
    [i \in 1 .. Len(s) |-> IF s[i] = "B" THEN "b"
                           ELSE IF s[i] = "O" THEN "o"
                           ELSE IF s[i] = "C" THEN "c"
                           ELSE s[i]]

RECURSIVE LStrip(_)
LStrip(s) == IF s # <<>> /\ Head(s) = " " THEN LStrip(Tail(s)) ELSE s

RECURSIVE RStrip(_)
RStrip(s) ==
    IF s # <<>> /\ s[Len(s)] = " " THEN RStrip(SubSeq(s, 1, Len(s) - 1)) ELSE s

Strip(s) == RStrip(LStrip(s))

\* SQLite LIKE: % matches any run of characters, _ exactly one character
RECURSIVE Like(_, _)
Like(text, pat) ==
    IF pat = <<>> THEN text = <<>>
    ELSE IF Head(pat) = "%"
         THEN \E k \in 0 .. Len(text) :
                 Like(SubSeq(text, k + 1, Len(text)), Tail(pat))
         ELSE /\ text # <<>>
              /\ (Head(pat) = "_" \/ Head(pat) = Head(text))
              /\ Like(Tail(text), Tail(pat))

-----------------------------------------------------------------------------
(* State *)

\* users: the rows of the users table in id order (AUTOINCREMENT, never deleted)
\* checks: the rows of the checks table
\* lastCheckId: the sqlite_sequence entry of the checks table
\* now: the reading of datetime.now()
\* inflight: the accept_check calls of concurrent requests that are between
\*           their SELECT and their UPDATE, or have returned

\* the requests that may run concurrently
Requests == {"r1", "r2"}

\* a request that has made no call
Idle == [pc |-> "idle", user_id |-> NULL, rows |-> {}, ok |-> FALSE]

Init ==
    /\ users = <<>>
    /\ checks = {}
    /\ lastCheckId = 0
    /\ now = 0
    /\ inflight = [r \in Requests |-> Idle]

\* what a call returns (success, message, check id) and the tables it leaves
Outcome(ok, msg, id, us, cs, lastId) ==
    [ok |-> ok, msg |-> msg, id |-> id,
     users |-> us, checks |-> cs, lastCheckId |-> lastId]

-----------------------------------------------------------------------------
(* Counterparty resolver *)

\* the outcomes of _resolve_user(name): the id returned and the users table
\* it leaves; a SELECT without ORDER BY may return any matching row
resolve_user(us, name) ==
    LET clean == Strip(name)
        exact == {i \in DOMAIN us : Lower(us[i].username) = Lower(clean)}
        fuzzy == {i \in DOMAIN us :
                     Like(Lower(us[i].username),
                          <<"%">> \o Lower(clean) \o <<"%">>)}
        same  == {i \in DOMAIN us : us[i].username = clean}
    IN  IF exact # {}
        THEN {[id |-> i, users |-> us] : i \in exact}
        ELSE IF Cardinality(fuzzy) = 1
        THEN {[id |-> i, users |-> us] : i \in fuzzy}
        ELSE IF same # {}
        THEN {[id |-> i, users |-> us] : i \in same}
        ELSE {[id |-> Len(us) + 1,
               users |-> Append(us, [username |-> clean, balance |-> 0])]}

-----------------------------------------------------------------------------
(* Operations of CheckManager: the outcomes of a call at clock reading t *)

\* slip: the issued row names no sender
issue_insert_noSender(check_id, issuer_id, payee_id, amount, maturity_date, t) ==
    [id |-> check_id, issuer_id |-> issuer_id, payee_id |-> payee_id,
     sender_id |-> NULL, amount |-> amount, status |-> "PENDING",
     issued_at |-> t, maturity_date |-> maturity_date,
     parent_check_id |-> NULL]

\* INSERT INTO checks (...) VALUES (?, ?, ?, ?, 'PENDING', ?, ?)
issue_insert(check_id, issuer_id, payee_id, amount, maturity_date, t) ==
    [id |-> check_id, issuer_id |-> issuer_id, payee_id |-> payee_id,
     sender_id |-> issuer_id, amount |-> amount, status |-> "PENDING",
     issued_at |-> t, maturity_date |-> maturity_date,
     parent_check_id |-> NULL]

issue_check(us, cs, lastId, t, issuer_id, payee_name, amount, custom_date, days_to_maturity) ==
    LET maturity_date ==
            IF custom_date # NULL THEN custom_date
            ELSE t + days_to_maturity * SecondsPerDay * TicksPerSecond
        check_id == lastId + 1
    IN  {Outcome(TRUE, "Check #{check_id} issued to {payee_name}.", check_id,
                 r.users,
                 cs \cup {issue_insert(check_id, issuer_id, r.id, amount,
                                       maturity_date, t)},
                 check_id) : r \in resolve_user(us, payee_name)}

\* slip: only PENDING checks can be accepted
AcceptFrom_pendingOnly == {"PENDING"}

\* slip: no status filter on accept
AcceptFrom_any == {"PENDING", "DENIED", "ACCEPTED"}

\* status IN ('PENDING', 'DENIED')
AcceptFrom == {"PENDING", "DENIED"}

\* status IN ('PENDING', 'ACCEPTED')
DenyFrom == {"PENDING", "ACCEPTED"}

\* the SELECT of accept_check / deny_check: the rows it may return (LIMIT 1
\* or a key lookup) and the users table after the issuer name was resolved;
\* {} when neither a check id nor an issuer name is given
Lookup(us, cs, user_id, check_id, issuer_name, from) ==
    IF check_id # NULL /\ check_id # 0
    THEN {[rows |-> {c \in cs : /\ c.id = check_id
                                /\ c.payee_id = user_id
                                /\ c.status \in from},
           users |-> us]}
    ELSE IF issuer_name # NoName /\ issuer_name # <<>>
    THEN {[rows |-> {c \in cs : /\ c.payee_id = user_id
                                /\ c.status \in from
                                /\ c.sender_id = r.id},
           users |-> r.users] : r \in resolve_user(us, issuer_name)}
    ELSE {}

\* slip: accept leaves sender_id as it is
accept_update_keepsSender(c) == [c EXCEPT !.status = "ACCEPTED"]

\* UPDATE checks SET status='ACCEPTED', sender_id=NULL
accept_update(c) == [c EXCEPT !.status = "ACCEPTED", !.sender_id = NULL]

accept_check(us, cs, lastId, user_id, check_id, issuer_name) ==
    LET found == Lookup(us, cs, user_id, check_id, issuer_name, AcceptFrom)
    IN  IF found = {}
        THEN {Outcome(FALSE, "Missing check information", NULL, us, cs, lastId)}
        ELSE UNION {
               IF q.rows = {}
               THEN {Outcome(FALSE,
                             "Check not found or not available to accept.",
                             NULL, q.users, cs, lastId)}
               ELSE {Outcome(TRUE, "Check #{check['id']} Accepted", check.id,
                             q.users,
                             {IF c.id = check.id THEN accept_update(c) ELSE c
                                 : c \in cs},
                             lastId)
                        : check \in q.rows}
               : q \in found}

\* slip: deny clears sender_id as accept does
deny_update_clearsSender(c) ==
    [c EXCEPT !.status = "DENIED", !.sender_id = NULL]

\* UPDATE checks SET status='DENIED'
deny_update(c) == [c EXCEPT !.status = "DENIED"]

deny_check(us, cs, lastId, user_id, check_id, issuer_name) ==
    LET found == Lookup(us, cs, user_id, check_id, issuer_name, DenyFrom)
    IN  IF found = {}
        THEN {Outcome(FALSE, "Missing check information", NULL, us, cs, lastId)}
        ELSE UNION {
               IF q.rows = {}
               THEN {Outcome(FALSE, "Check not found.", NULL,
                             q.users, cs, lastId)}
               ELSE {Outcome(TRUE, "Check #{check['id']} Denied", check.id,
                             q.users,
                             {IF c.id = check.id THEN deny_update(c) ELSE c
                                 : c \in cs},
                             lastId)
                        : check \in q.rows}
               : q \in found}

\* slip: the payee filter of forward left out
forward_select_anyHolder(cs, user_id, check_id) ==
    {c \in cs : c.id = check_id /\ c.status = "ACCEPTED"}

\* slip: the status filter of forward left out
forward_select_anyStatus(cs, user_id, check_id) ==
    {c \in cs : c.id = check_id /\ c.payee_id = user_id}

\* SELECT * FROM checks WHERE id=? AND payee_id=? AND status='ACCEPTED'
forward_select(cs, user_id, check_id) ==
    {c \in cs : c.id = check_id /\ c.payee_id = user_id /\ c.status = "ACCEPTED"}

\* slip: the forwarded check stored under a new id
forward_update_newId(c, new_payee_id, user_id, t) ==
    [c EXCEPT !.id = c.id + MaxChecks, !.payee_id = new_payee_id,
              !.sender_id = user_id, !.status = "PENDING", !.issued_at = t]

\* slip: the forwarding holder becomes the issuer of the row
forward_update_newIssuer(c, new_payee_id, user_id, t) ==
    [c EXCEPT !.payee_id = new_payee_id, !.sender_id = user_id,
              !.issuer_id = user_id, !.status = "PENDING", !.issued_at = t]

\* slip: the forwarded row marked FORWARDED (the older forward model)
forward_update_marksForwarded(c, new_payee_id, user_id, t) ==
    [c EXCEPT !.payee_id = new_payee_id, !.sender_id = user_id,
              !.status = "FORWARDED", !.issued_at = t]

\* slip: forward re-stamps maturity_date as well
forward_update_restampsMaturity(c, new_payee_id, user_id, t) ==
    [c EXCEPT !.payee_id = new_payee_id, !.sender_id = user_id,
              !.status = "PENDING", !.issued_at = t, !.maturity_date = t]

\* slip: forward does not re-stamp issued_at
forward_update_keepsIssuedAt(c, new_payee_id, user_id, t) ==
    [c EXCEPT !.payee_id = new_payee_id, !.sender_id = user_id,
              !.status = "PENDING"]

\* UPDATE checks SET payee_id = ?, sender_id = ?, status = 'PENDING',
\* issued_at = ?
forward_update(c, new_payee_id, user_id, t) ==
    [c EXCEPT !.payee_id = new_payee_id, !.sender_id = user_id,
              !.status = "PENDING", !.issued_at = t]

forward_check(us, cs, lastId, t, user_id, check_id, new_payee_name) ==
    IF forward_select(cs, user_id, check_id) = {}
    THEN {Outcome(FALSE,
                  "Check not found, not accepted, or you do not own it.",
                  NULL, us, cs, lastId)}
    ELSE {Outcome(TRUE, "Check #{check_id} forwarded to {new_payee_name}.",
                  check_id, r.users,
                  {IF c.id = check_id
                   THEN forward_update(c, r.id, user_id, t) ELSE c : c \in cs},
                  lastId)
             : r \in resolve_user(us, new_payee_name)}

\* slip: the window closes at the deadline itself
Expired_atDeadline(t, issued_at) ==
    t - issued_at >= WindowSeconds * TicksPerSecond

\* (datetime.now() - sent_time).total_seconds() > 3600
Expired(t, issued_at) == t - issued_at > WindowSeconds * TicksPerSecond

\* SELECT * FROM checks WHERE id=? AND sender_id=? AND status='PENDING'
cancel_forward_select(cs, user_id, check_id) ==
    {c \in cs : c.id = check_id /\ c.sender_id = user_id /\ c.status = "PENDING"}

\* slip: the cancelled forward leaves the check PENDING
cancel_forward_update_keepsPending(c, user_id) ==
    LET new_sender_id == IF c.issuer_id = user_id THEN user_id ELSE NULL
    IN  [c EXCEPT !.payee_id = user_id, !.sender_id = new_sender_id]

\* slip: sender_id always cleared when a forward is cancelled
cancel_forward_update_nullSender(c, user_id) ==
    [c EXCEPT !.payee_id = user_id, !.sender_id = NULL,
              !.status = "ACCEPTED"]

\* slip: the caller stays the sender whoever issued the check
cancel_forward_update_keepsSender(c, user_id) ==
    [c EXCEPT !.payee_id = user_id, !.sender_id = user_id,
              !.status = "ACCEPTED"]

\* UPDATE checks SET payee_id = ?, sender_id = ?, status = 'ACCEPTED'
cancel_forward_update(c, user_id) ==
    LET new_sender_id == IF c.issuer_id = user_id THEN user_id ELSE NULL
    IN  [c EXCEPT !.payee_id = user_id, !.sender_id = new_sender_id,
                  !.status = "ACCEPTED"]

cancel_forward(us, cs, lastId, t, user_id, check_id) ==
    LET rows == cancel_forward_select(cs, user_id, check_id)
    IN  IF rows = {}
        THEN {Outcome(FALSE,
                "Cannot cancel: Check not found, already accepted by recipient, or not sent by you.",
                NULL, us, cs, lastId)}
        ELSE {IF Expired(t, check.issued_at)
              THEN Outcome(FALSE,
                     "Cannot cancel: 1-hour revocation window has expired.",
                     NULL, us, cs, lastId)
              ELSE Outcome(TRUE,
                     "Forward for Check #{check_id} cancelled. It has been returned to your wallet.",
                     NULL, us,
                     {IF c.id = check_id
                      THEN cancel_forward_update(c, user_id) ELSE c : c \in cs},
                     lastId)
                 : check \in rows}

\* SELECT * FROM checks WHERE id=? AND issuer_id=? AND status='PENDING'
cancel_issuance_select(cs, user_id, check_id) ==
    {c \in cs : c.id = check_id /\ c.issuer_id = user_id /\ c.status = "PENDING"}

\* slip: DELETE without its WHERE clause
cancel_issuance_delete_all(cs, check_id) == {}

\* DELETE FROM checks WHERE id=?
cancel_issuance_delete(cs, check_id) == {c \in cs : c.id # check_id}

cancel_issuance(us, cs, lastId, t, user_id, check_id) ==
    LET rows == cancel_issuance_select(cs, user_id, check_id)
    IN  IF rows = {}
        THEN {Outcome(FALSE,
                "Cannot cancel: Check not found or recipient has already processed it.",
                NULL, us, cs, lastId)}
        ELSE {IF Expired(t, check.issued_at)
              THEN Outcome(FALSE,
                     "Cannot cancel: 1-hour revocation window has expired.",
                     NULL, us, cs, lastId)
              ELSE Outcome(TRUE, "Issuance of Check #{check_id} cancelled.",
                           NULL, us, cancel_issuance_delete(cs, check_id),
                           lastId)
                 : check \in rows}

\* slip: the reset leaves the status as it is
revoke_update_keepsStatus(c) == c

\* slip: the reset clears sender_id as accept does
revoke_update_clearsSender(c) ==
    [c EXCEPT !.status = "PENDING", !.sender_id = NULL]

\* UPDATE checks SET status='PENDING'
revoke_update(c) == [c EXCEPT !.status = "PENDING"]

revoke_incoming_decision(us, cs, lastId, user_id, check_id) ==
    IF {c \in cs : c.id = check_id /\ c.payee_id = user_id} = {}
    THEN {Outcome(FALSE, "You do not own this check.", NULL, us, cs, lastId)}
    ELSE {Outcome(TRUE,
            "Decision reset. Check #{check_id} is back to PENDING status.",
            NULL, us,
            {IF c.id = check_id THEN revoke_update(c) ELSE c : c \in cs},
            lastId)}

\* slip: the issuer test made before the payee test
category_issuerFirst(c, user_id) ==
    IF c.issuer_id = user_id THEN "ISSUED"
    ELSE IF c.payee_id = user_id
    THEN IF c.status = "ACCEPTED" THEN "WALLET"
         ELSE IF c.status = "DENIED" THEN "DENIED_HISTORY"
         ELSE "INCOMING"
    ELSE IF c.sender_id = user_id /\ c.issuer_id # user_id THEN "FORWARDED"
    ELSE "OTHER"

\* the basket logic of get_user_checks
category(c, user_id) ==
    IF c.payee_id = user_id
    THEN IF c.status = "ACCEPTED" THEN "WALLET"
         ELSE IF c.status = "DENIED" THEN "DENIED_HISTORY"
         ELSE "INCOMING"
    ELSE IF c.issuer_id = user_id THEN "ISSUED"
    ELSE IF c.sender_id = user_id /\ c.issuer_id # user_id THEN "FORWARDED"
    ELSE "OTHER"

\* FROM checks c JOIN users u1 ON c.issuer_id = u1.id
\*               JOIN users u2 ON c.payee_id = u2.id
\* WHERE c.issuer_id = ? OR c.payee_id = ? OR c.sender_id = ?
\* (the LEFT JOIN on sender_id drops no row)
listed(us, cs, user_id) ==
    {c \in cs : /\ c.issuer_id \in DOMAIN us
                /\ c.payee_id \in DOMAIN us
                /\ \/ c.issuer_id = user_id
                   \/ c.payee_id = user_id
                   \/ c.sender_id # NULL /\ c.sender_id = user_id}

\* ORDER BY c.id DESC
RECURSIVE OrderByIdDesc(_)
OrderByIdDesc(rows) ==
    IF rows = {} THEN <<>>
    ELSE LET top == CHOOSE c \in rows : \A d \in rows : d.id <= c.id
         IN  <<top>> \o OrderByIdDesc(rows \ {top})

\* get_user_checks(user_id): the rows, newest id first, each with the names
\* of its parties and its category
get_user_checks(us, cs, user_id) ==
    LET rows == OrderByIdDesc(listed(us, cs, user_id))
    IN  [i \in 1 .. Len(rows) |->
            [check |-> rows[i],
             issuer_name |-> us[rows[i].issuer_id].username,
             payee_name |-> us[rows[i].payee_id].username,
             sender_name |-> IF rows[i].sender_id \in DOMAIN us
                             THEN us[rows[i].sender_id].username
                             ELSE NoName,
             category |-> category(rows[i], user_id)]]

\* issue_check when the store rejects the INSERT of the check: the except
\* branch rolls back and returns failure; what _resolve_user committed
\* before it stays
issue_check_rejected(us, cs, lastId, payee_name) ==
    {Outcome(FALSE, "Error issuing check: {e}", NULL, r.users, cs, lastId)
        : r \in resolve_user(us, payee_name)}

\* forward_check when the store rejects the UPDATE of the check: the error
\* propagates to the caller; what _resolve_user committed before it stays
forward_check_rejected(us, cs, lastId, user_id, check_id, new_payee_name) ==
    IF forward_select(cs, user_id, check_id) = {}
    THEN {}
    ELSE {Outcome(FALSE, "sqlite3.Error", NULL, r.users, cs, lastId)
             : r \in resolve_user(us, new_payee_name)}

-----------------------------------------------------------------------------
(* Command router (managers/transaction_manager.py): the handlers that map  *)
(* a request to calls of CheckManager and of the audit logger               *)

\* logger.log_transaction(user_id, operation_type, status, check_id=...)
LogCall(user_id, operation_type, status, check_id) ==
    [user_id |-> user_id, operation_type |-> operation_type,
     status |-> status, check_id |-> check_id]

\* what a handler returns ('success', and 'message' as the list of result
\* messages it joins), the tables it leaves, the engine calls it made and
\* the audit-log calls it issued, in order
Routed(ok, results, us, cs, lastId, calls, logs) ==
    [ok |-> ok, results |-> results, users |-> us, checks |-> cs,
     lastCheckId |-> lastId, calls |-> calls, logs |-> logs]

\* ids = [x for x in ids if x]
RECURSIVE Truthy(_)
Truthy(ids) ==
    IF ids = <<>> THEN <<>>
    ELSE IF Head(ids) = NULL \/ Head(ids) = 0 THEN Truthy(Tail(ids))
    ELSE <<Head(ids)>> \o Truthy(Tail(ids))

\* _execute_issue_check; a name or an amount left out of the parameters is
\* NoName, NULL
execute_issue_check(us, cs, lastId, t, user_id, counterparty, amount, custom_date) ==
    IF counterparty = NoName \/ amount = NULL
    THEN {Routed(FALSE, <<"I need a name and amount to issue a check.">>,
                 us, cs, lastId, <<>>, <<>>)}
    ELSE {Routed(o.ok, <<o.msg>>, o.users, o.checks, o.lastCheckId,
                 << <<"issue_check", o.id>> >>,
                 <<LogCall(user_id, "ISSUE_CHECK",
                           IF o.ok THEN "SUCCESS" ELSE "FAILED", o.id)>>)
             : o \in issue_check(us, cs, lastId, t, user_id, counterparty, amount, custom_date, 0)}

\* slip: the accept loops log the outcome of every call
accept_logs_outcome(always, ok) == IF ok THEN <<"SUCCESS">> ELSE <<"FAILED">>

\* the statuses _execute_accept_check logs for one accept_check call: the
\* accept-all loop logs SUCCESS whatever the call returned, the batch loop
\* logs a successful call only
accept_logs(always, ok) == IF always \/ ok THEN <<"SUCCESS">> ELSE <<>>

\* for c in ...: self.check_mgr.accept_check(user_id, check_id=c)
RECURSIVE accept_each(_, _, _, _)
accept_each(st, user_id, ids, always) ==
    IF ids = <<>> THEN {st}
    ELSE UNION {
           LET logged == accept_logs(always, o.ok)
           IN  accept_each(
                  Routed(TRUE, Append(st.results, <<Head(ids), o.msg>>),
                         o.users, o.checks, o.lastCheckId,
                         Append(st.calls, <<"accept_check", Head(ids)>>),
                         st.logs \o
                           [i \in DOMAIN logged |->
                               LogCall(user_id, "ACCEPT_CHECK", logged[i], Head(ids))]),
                  user_id, Tail(ids), always)
           : o \in accept_check(st.users, st.checks, st.lastCheckId,
                                user_id, Head(ids), NoName)}

\* slip: accept-all takes the DENIED checks of the caller as well
accept_all_pending_orDenied(us, cs, user_id) ==
    LET l == get_user_checks(us, cs, user_id)
    IN  SelectSeq([i \in DOMAIN l |-> l[i].check],
                  LAMBDA c : c.payee_id = user_id /\ c.status \in {"PENDING", "DENIED"})

\* [c for c in get_user_checks(user_id)
\*    if c['payee_id'] == user_id and c['status'] == 'PENDING']
accept_all_pending(us, cs, user_id) ==
    LET l == get_user_checks(us, cs, user_id)
    IN  SelectSeq([i \in DOMAIN l |-> l[i].check],
                  LAMBDA c : c.payee_id = user_id /\ c.status = "PENDING")

\* _execute_accept_check: accept all, or the checks of the given ids
execute_accept_check(us, cs, lastId, user_id, accept_all, ids) ==
    IF accept_all
    THEN LET pending == accept_all_pending(us, cs, user_id)
         IN  IF pending = <<>>
             THEN {Routed(TRUE, <<"No pending checks to accept.">>,
                          us, cs, lastId, <<>>, <<>>)}
             ELSE {[st EXCEPT !.results = <<"Accepted {len(pending)} checks.">>]
                      : st \in accept_each(
                                  Routed(TRUE, <<>>, us, cs, lastId, <<>>, <<>>),
                                  user_id,
                                  [i \in DOMAIN pending |-> pending[i].id],
                                  TRUE)}
    ELSE IF Truthy(ids) = <<>>
    THEN {Routed(FALSE, <<"Which check?">>, us, cs, lastId, <<>>, <<>>)}
    ELSE accept_each(Routed(TRUE, <<>>, us, cs, lastId, <<>>, <<>>),
                     user_id, Truthy(ids), FALSE)

\* for cid in ids: self.check_mgr.deny_check(user_id, check_id=cid)
RECURSIVE deny_each(_, _, _)
deny_each(st, user_id, ids) ==
    IF ids = <<>> THEN {st}
    ELSE UNION {
           deny_each(
               Routed(TRUE, Append(st.results, <<Head(ids), o.msg>>),
                      o.users, o.checks, o.lastCheckId,
                      Append(st.calls, <<"deny_check", Head(ids)>>),
                      IF o.ok
                      THEN Append(st.logs,
                                  LogCall(user_id, "DENY_CHECK", "SUCCESS", Head(ids)))
                      ELSE st.logs),
               user_id, Tail(ids))
           : o \in deny_check(st.users, st.checks, st.lastCheckId,
                              user_id, Head(ids), NoName)}

\* _execute_deny_check
execute_deny_check(us, cs, lastId, user_id, ids) ==
    IF Truthy(ids) = <<>>
    THEN {Routed(FALSE, <<"Which check?">>, us, cs, lastId, <<>>, <<>>)}
    ELSE deny_each(Routed(TRUE, <<>>, us, cs, lastId, <<>>, <<>>),
                   user_id, Truthy(ids))

\* _execute_forward_check; a check id or a recipient left out of the
\* parameters is NULL, NoName
execute_forward_check(us, cs, lastId, t, user_id, check_id, to_counterparty) ==
    IF check_id = NULL
    THEN {Routed(FALSE, <<"Need check number.">>, us, cs, lastId, <<>>, <<>>)}
    ELSE IF to_counterparty = NoName
    THEN {Routed(FALSE, <<"Need recipient name.">>, us, cs, lastId, <<>>, <<>>)}
    ELSE {Routed(o.ok, <<o.msg>>, o.users, o.checks, o.lastCheckId,
                 << <<"forward_check", check_id>> >>,
                 <<LogCall(user_id, "FORWARD_CHECK",
                           IF o.ok THEN "SUCCESS" ELSE "FAILED", o.id)>>)
             : o \in forward_check(us, cs, lastId, t, user_id, check_id, to_counterparty)}

\* slip: the issuer branch tested before the sender branch
revoke_branch_issuerFirst(check, user_id) ==
    IF check.issuer_id = user_id /\ check.status = "PENDING"
    THEN "cancel_issuance"
    ELSE IF check.sender_id = user_id /\ check.status = "PENDING"
    THEN "cancel_forward"
    ELSE IF check.payee_id = user_id
    THEN IF check.status \in {"ACCEPTED", "DENIED"}
         THEN "revoke_incoming_decision" ELSE "nothing to revoke"
    ELSE "cannot revoke"

\* the logic branching of _execute_revoke_operation on the fetched row
revoke_branch(check, user_id) ==
    IF check.sender_id = user_id /\ check.status = "PENDING"
    THEN "cancel_forward"
    ELSE IF check.issuer_id = user_id /\ check.status = "PENDING"
    THEN "cancel_issuance"
    ELSE IF check.payee_id = user_id
    THEN IF check.status \in {"ACCEPTED", "DENIED"}
         THEN "revoke_incoming_decision" ELSE "nothing to revoke"
    ELSE "cannot revoke"

\* the engine call of the branch taken, or the refusal of the router itself
revoke_dispatch(us, cs, lastId, t, user_id, cid, branch) ==
    IF branch = "cancel_forward"
    THEN cancel_forward(us, cs, lastId, t, user_id, cid)
    ELSE IF branch = "cancel_issuance"
    THEN cancel_issuance(us, cs, lastId, t, user_id, cid)
    ELSE IF branch = "revoke_incoming_decision"
    THEN revoke_incoming_decision(us, cs, lastId, user_id, cid)
    ELSE IF branch = "nothing to revoke"
    THEN {Outcome(FALSE, "Check is {check['status']}, nothing to revoke.",
                  NULL, us, cs, lastId)}
    ELSE {Outcome(FALSE,
                  "You cannot revoke this check (wrong status or ownership).",
                  NULL, us, cs, lastId)}

EngineCalls == {"cancel_forward", "cancel_issuance", "revoke_incoming_decision"}

\* the loop of _execute_revoke_operation over the ids
RECURSIVE revoke_each(_, _, _, _)
revoke_each(st, t, user_id, ids) ==
    IF ids = <<>> THEN {st}
    ELSE LET cid == Head(ids)
             found == {c \in st.checks : c.id = cid}
         IN  IF found = {}
             THEN revoke_each([st EXCEPT !.results = Append(@, <<cid, "Not found">>)],
                              t, user_id, Tail(ids))
             ELSE UNION {
                    LET branch == revoke_branch(check, user_id)
                    IN  UNION {
                          revoke_each(
                             Routed(st.ok \/ o.ok,
                                    Append(st.results, <<cid, o.msg>>),
                                    o.users, o.checks, o.lastCheckId,
                                    IF branch \in EngineCalls
                                    THEN Append(st.calls, <<branch, cid>>)
                                    ELSE st.calls,
                                    IF o.ok
                                    THEN Append(st.logs,
                                                LogCall(user_id, "REVOKE_OP", "SUCCESS", cid))
                                    ELSE st.logs),
                             t, user_id, Tail(ids))
                          : o \in revoke_dispatch(st.users, st.checks, st.lastCheckId,
                                                  t, user_id, cid, branch)}
                    : check \in found}

\* _execute_revoke_operation: success is success_count > 0
execute_revoke_operation(us, cs, lastId, t, user_id, ids) ==
    IF Truthy(ids) = <<>>
    THEN {Routed(FALSE, <<"Which check number?">>, us, cs, lastId, <<>>, <<>>)}
    ELSE revoke_each(Routed(FALSE, <<>>, us, cs, lastId, <<>>, <<>>),
                     t, user_id, Truthy(ids))

-----------------------------------------------------------------------------
(* Actions: a caller makes one call and its outcome is committed *)

Commit(o) ==
    /\ Len(o.users) <= MaxUsers
    /\ users' = o.users
    /\ checks' = o.checks
    /\ lastCheckId' = o.lastCheckId
    /\ UNCHANGED <<now, inflight>>

\* issue_check with the default maturity, while fewer than max checks exist
IssueUpTo(max, amounts, dates, days) ==
    /\ lastCheckId < max
    /\ \E u \in CallerIds, n \in NameInputs, a \in amounts,
          d \in dates, k \in days :
          \E o \in issue_check(users, checks, lastCheckId, now, u, n, a, d, k) :
             Commit(o)

Issue == IssueUpTo(MaxChecks, Amounts, {NULL}, {0})

Accept ==
    \E u \in CallerIds, a \in LookupArgs :
       \E o \in accept_check(users, checks, lastCheckId, u, a[1], a[2]) :
          Commit(o)

Deny ==
    \E u \in CallerIds, a \in LookupArgs :
       \E o \in deny_check(users, checks, lastCheckId, u, a[1], a[2]) :
          Commit(o)

Forward ==
    \E u \in CallerIds, c \in CheckIdInputs, n \in NameInputs :
       \E o \in forward_check(users, checks, lastCheckId, now, u, c, n) :
          Commit(o)

CancelForward ==
    \E u \in CallerIds, c \in CheckIdInputs :
       \E o \in cancel_forward(users, checks, lastCheckId, now, u, c) :
          Commit(o)

CancelIssuance ==
    \E u \in CallerIds, c \in CheckIdInputs :
       \E o \in cancel_issuance(users, checks, lastCheckId, now, u, c) :
          Commit(o)

RevokeIncomingDecision ==
    \E u \in CallerIds, c \in CheckIdInputs :
       \E o \in revoke_incoming_decision(users, checks, lastCheckId, u, c) :
          Commit(o)

\* the wall clock moves on between two calls
TickIn(instants) ==
    /\ \E t \in instants : t > now /\ now' = t
    /\ UNCHANGED <<users, checks, lastCheckId, inflight>>

Tick == TickIn(Instants)

Next ==
    \/ Issue
    \/ Accept
    \/ Deny
    \/ Forward
    \/ CancelForward
    \/ CancelIssuance
    \/ RevokeIncomingDecision
    \/ Tick

Spec == Init /\ [][Next]_vars

\* One check, issued with any amount and maturity, and the clock read around
\* the end of the revocation window
IssueOne == IssueUpTo(1, AnyAmounts, CustomDates, DaysToMaturity)

TickWindow == TickIn(WindowInstants)

NextWindow ==
    \/ IssueOne
    \/ Accept
    \/ Deny
    \/ Forward
    \/ CancelForward
    \/ CancelIssuance
    \/ RevokeIncomingDecision
    \/ TickWindow

SpecWindow == Init /\ [][NextWindow]_vars

\* Resolver runs: more parties and names that are equal up to case and
\* blanks, contained in one another, or hold a LIKE wildcard
MaxParties == 3

ResolverNames ==
    { <<"b", "o">>, <<"b", "c">>, <<"b">>, <<" ", "B", "O", " ">>,
      <<"o">>, <<"_">> }

CommitParties(o) ==
    /\ Len(o.users) <= MaxParties
    /\ users' = o.users
    /\ checks' = o.checks
    /\ lastCheckId' = o.lastCheckId
    /\ UNCHANGED <<now, inflight>>

\* a call of _resolve_user alone
Resolve ==
    \E n \in ResolverNames :
       \E r \in resolve_user(users, n) :
          CommitParties(Outcome(TRUE, "", r.id, r.users, checks, lastCheckId))

\* issue_check to a payee of any of these names, once
IssueNamed ==
    /\ lastCheckId < 1
    /\ \E u \in CallerIds, n \in ResolverNames, a \in Amounts :
          \E o \in issue_check(users, checks, lastCheckId, now, u, n, a, NULL, 0) :
             CommitParties(o)

\* accept_check by issuer name
AcceptNamed ==
    \E u \in CallerIds, n \in ResolverNames :
       \E o \in accept_check(users, checks, lastCheckId, u, NULL, n) :
          CommitParties(o)

NextResolver ==
    \/ Resolve
    \/ IssueNamed
    \/ AcceptNamed

SpecResolver == Init /\ [][NextResolver]_vars

\* Requests through the router: the lists of check ids a request carries
IdLists == { <<>>, <<0>>, <<1>>, <<2>>, <<1, 2>>, <<2, 1>>, <<1, 1>>, <<NULL, 2>> }

RouterIssue ==
    /\ lastCheckId < MaxChecks
    /\ \E u \in CallerIds, n \in NameInputs \cup {NoName}, a \in Amounts \cup {NULL} :
          \E o \in execute_issue_check(users, checks, lastCheckId, now, u, n, a, NULL) :
             Commit(o)

RouterAccept ==
    \E u \in CallerIds, all \in BOOLEAN, ids \in IdLists :
       \E o \in execute_accept_check(users, checks, lastCheckId, u, all, ids) :
          Commit(o)

RouterDeny ==
    \E u \in CallerIds, ids \in IdLists :
       \E o \in execute_deny_check(users, checks, lastCheckId, u, ids) :
          Commit(o)

RouterForward ==
    \E u \in CallerIds, c \in CheckArgs, n \in NameInputs \cup {NoName} :
       \E o \in execute_forward_check(users, checks, lastCheckId, now, u, c, n) :
          Commit(o)

RouterRevoke ==
    \E u \in CallerIds, ids \in IdLists :
       \E o \in execute_revoke_operation(users, checks, lastCheckId, now, u, ids) :
          Commit(o)

NextRouter ==
    \/ RouterIssue
    \/ RouterAccept
    \/ RouterDeny
    \/ RouterForward
    \/ RouterRevoke
    \/ Tick

SpecRouter == Init /\ [][NextRouter]_vars

\* Concurrent requests: accept_check by check id runs as two steps, the
\* SELECT of the eligible row and the UPDATE with its commit, and the steps
\* of two requests interleave with each other and with the other operations

\* slip: the write made conditional on the row still being eligible
accept_write_conditional(cs, check) ==
    IF \E c \in cs : c.id = check.id /\ c.payee_id = check.payee_id
                     /\ c.status \in AcceptFrom
    THEN [ok |-> TRUE,
          checks |-> {IF c.id = check.id THEN accept_update(c) ELSE c : c \in cs}]
    ELSE [ok |-> FALSE, checks |-> cs]

\* UPDATE checks SET status='ACCEPTED', sender_id=NULL WHERE id=?; commit;
\* return True
accept_write(cs, check) ==
    [ok |-> TRUE,
     checks |-> {IF c.id = check.id THEN accept_update(c) ELSE c : c \in cs}]

\* the SELECT of accept_check(user_id, check_id) and its fetchone
AcceptSelect(r) ==
    /\ inflight[r].pc = "idle"
    /\ \E u \in CallerIds, id \in 1 .. MaxChecks :
          LET rows == {c \in checks : /\ c.id = id /\ c.payee_id = u
                                      /\ c.status \in AcceptFrom}
          IN  inflight' = [inflight EXCEPT ![r] =
                             [pc |-> IF rows = {} THEN "done" ELSE "selected",
                              user_id |-> u, rows |-> rows, ok |-> FALSE]]
    /\ UNCHANGED <<users, checks, lastCheckId, now>>

\* the UPDATE of accept_check, its commit and its return
AcceptUpdate(r) ==
    /\ inflight[r].pc = "selected"
    /\ \E check \in inflight[r].rows :
          LET w == accept_write(checks, check)
          IN  /\ checks' = w.checks
              /\ inflight' = [inflight EXCEPT ![r].pc = "done", ![r].ok = w.ok]
    /\ UNCHANGED <<users, lastCheckId, now>>

\* the request is answered; another may come
Return(r) ==
    /\ inflight[r].pc = "done"
    /\ inflight' = [inflight EXCEPT ![r] = Idle]
    /\ UNCHANGED <<users, checks, lastCheckId, now>>

NextRace ==
    \/ IssueOne
    \/ \E r \in Requests : AcceptSelect(r)
    \/ \E r \in Requests : AcceptUpdate(r)
    \/ \E r \in Requests : Return(r)
    \/ Deny
    \/ RevokeIncomingDecision
    \/ CancelIssuance

SpecRace == Init /\ [][NextRace]_vars

\* Concurrent calls on one check: accept_check, forward_check, cancel_forward
\* and cancel_issuance by check id each run as a SELECT of the eligible row
\* (with the test of the revocation window that follows it) and, in a later
\* step, a write keyed by the id alone.  The calls of two requests start from
\* a store left by sequential calls and their steps interleave.

ConcurrentOps ==
    {"accept_check", "forward_check", "cancel_forward", "cancel_issuance"}

\* the payee name a concurrent forward_check is given
ForwardTo == <<"b", "o">>

\* a call in flight: its position, its arguments, the rows its SELECT
\* returned, new_payee_id once resolved, the success it returned, and the
\* tables as they were when the first of the concurrent calls began
Call(pc, op, user_id, check_id, rows, to, ok, base) ==
    [pc |-> pc, op |-> op, user_id |-> user_id, check_id |-> check_id,
     rows |-> rows, to |-> to, ok |-> ok, base |-> base]

\* no request is inside a call
Quiet == \A r \in Requests : inflight[r].pc = "idle"

\* the rows a call goes on with: the row its SELECT returns, unless the call
\* returns failure at its test of the revocation window
call_select(cs, t, op, user_id, check_id) ==
    IF op = "accept_check"
    THEN {c \in cs : /\ c.id = check_id /\ c.payee_id = user_id
                     /\ c.status \in AcceptFrom}
    ELSE IF op = "forward_check"
    THEN forward_select(cs, user_id, check_id)
    ELSE IF op = "cancel_forward"
    THEN {c \in cancel_forward_select(cs, user_id, check_id) :
             ~Expired(t, c.issued_at)}
    ELSE {c \in cancel_issuance_select(cs, user_id, check_id) :
             ~Expired(t, c.issued_at)}

\* the write of a call, WHERE id = ? and no other condition, on the table
\* as it is by then; cancel_forward computes new_sender_id from the row it
\* read
call_write(cs, t, op, user_id, check, to) ==
    IF op = "accept_check"
    THEN accept_write(cs, check).checks
    ELSE IF op = "forward_check"
    THEN {IF c.id = check.id THEN forward_update(c, to, user_id, t) ELSE c
             : c \in cs}
    ELSE IF op = "cancel_forward"
    THEN {IF c.id = check.id
          THEN [c EXCEPT !.payee_id = user_id,
                         !.sender_id = cancel_forward_update(check, user_id).sender_id,
                         !.status = "ACCEPTED"]
          ELSE c : c \in cs}
    ELSE cancel_issuance_delete(cs, check.id)

\* a request calls an operation on check 1: the SELECT and fetchone, and for
\* the two cancel operations the test of the window
CallSelect(r) ==
    /\ inflight[r].pc = "idle"
    /\ \E op \in ConcurrentOps, u \in CallerIds :
          LET rows == call_select(checks, now, op, u, 1)
              others == {q \in Requests : inflight[q].pc # "idle"}
              base == IF others = {}
                      THEN [users |-> users, checks |-> checks]
                      ELSE inflight[CHOOSE q \in others : TRUE].base
          IN  inflight' = [inflight EXCEPT ![r] =
                             Call(IF rows = {} THEN "done" ELSE "selected",
                                  op, u, 1, rows, NULL, FALSE, base)]
    /\ UNCHANGED <<users, checks, lastCheckId, now>>

\* forward_check resolves the new payee between its SELECT and its UPDATE
CallResolve(r) ==
    /\ inflight[r].pc = "selected"
    /\ inflight[r].op = "forward_check"
    /\ \E p \in resolve_user(users, ForwardTo) :
          /\ Len(p.users) <= MaxUsers
          /\ users' = p.users
          /\ inflight' = [inflight EXCEPT ![r].pc = "resolved", ![r].to = p.id]
    /\ UNCHANGED <<checks, lastCheckId, now>>

\* the UPDATE or DELETE of the call, its commit and its return of success
CallWrite(r) ==
    /\ \/ inflight[r].pc = "selected" /\ inflight[r].op # "forward_check"
       \/ inflight[r].pc = "resolved"
    /\ \E check \in inflight[r].rows :
          checks' = call_write(checks, now, inflight[r].op, inflight[r].user_id,
                               check, inflight[r].to)
    /\ inflight' = [inflight EXCEPT ![r].pc = "done", ![r].ok = TRUE]
    /\ UNCHANGED <<users, lastCheckId, now>>

\* the requests are answered
ReturnAll ==
    /\ \E r \in Requests : inflight[r].pc = "done"
    /\ \A r \in Requests : inflight[r].pc \in {"idle", "done"}
    /\ inflight' = [r \in Requests |-> Idle]
    /\ UNCHANGED <<users, checks, lastCheckId, now>>

NextConcurrent ==
    \/ Quiet /\ IssueUpTo(1, Amounts, {NULL}, {0})
    \/ Quiet /\ Accept
    \/ Quiet /\ Forward
    \/ Quiet /\ Tick
    \/ \E r \in Requests : CallSelect(r)
    \/ \E r \in Requests : CallResolve(r)
    \/ \E r \in Requests : CallWrite(r)
    \/ ReturnAll

SpecConcurrent == Init /\ [][NextConcurrent]_vars

\* the columns stay in their types; status obeys the CHECK constraint of the
\* schema and ids are unique (PRIMARY KEY)
TypeOK ==
    /\ Len(users) <= MaxUsers
    /\ \A c \in checks : c.status \in Statuses
    /\ lastCheckId \in 0 .. MaxChecks
    /\ now \in Instants \cup WindowInstants
    /\ \A c \in checks : c.id \in 1 .. lastCheckId
    /\ \A c, d \in checks : c.id = d.id => c = d

-----------------------------------------------------------------------------
(* Properties.  A property of an operation is stated in the state the call  *)
(* is made in, over every caller, every argument and every outcome.         *)


\* the row with this id
RowOf(cs, id) == CHOOSE c \in cs : c.id = id

Ids(cs) == {c.id : c \in cs}

WindowTicks == WindowSeconds * TicksPerSecond

\* the check went to its payee by a forward: only forward_check sets a
\* sender_id other than the issuer
Forwarded(c) ==
    c.status = "PENDING" /\ c.sender_id # NULL /\ c.sender_id # c.issuer_id

Holds(u, id) ==
    \E c \in checks : c.id = id /\ c.payee_id = u /\ c.status = "ACCEPTED"

\* C4: forward succeeds only for the payee of an ACCEPTED check; otherwise
\* it fails, every check is unchanged and no party is created.
C4_ForwardGuard ==
    \A u \in CallerIds, id \in CheckArgs, n \in NameInputs :
       \A o \in forward_check(users, checks, lastCheckId, now, u, id, n) :
          /\ o.ok => Holds(u, id)
          /\ ~Holds(u, id) =>
                ~o.ok /\ o.checks = checks /\ o.users = users /\ o.id = NULL

\* a PENDING and a DENIED check, each with a payee who may call, and a name
\* whose resolution would create a party
C4_Witness ==
    /\ \E c, d \in checks :
          /\ c.status = "PENDING" /\ c.payee_id \in CallerIds
          /\ d.status = "DENIED" /\ d.payee_id \in CallerIds
    /\ \E n \in NameInputs : \A r \in resolve_user(users, n) : r.users # users

\* the caller may accept the check: payee of a PENDING or DENIED check
Acceptable(u, id) ==
    \E c \in checks :
       c.id = id /\ c.payee_id = u /\ c.status \in {"PENDING", "DENIED"}

\* C5: accept by check id succeeds exactly when the caller is the payee of
\* an existing PENDING or DENIED check; then status is ACCEPTED, sender_id
\* null and id, issuer_id, payee_id, amount, issued_at unchanged.
C5_AcceptById ==
    \A u \in CallerIds, id \in CheckArgs :
       LET outs == accept_check(users, checks, lastCheckId, u, id, NoName)
       IN  /\ outs # {}
           /\ \A o \in outs :
                 /\ o.ok <=> Acceptable(u, id)
                 /\ o.ok =>
                       /\ Ids(o.checks) = Ids(checks)
                       /\ RowOf(o.checks, id).status = "ACCEPTED"
                       /\ RowOf(o.checks, id).sender_id = NULL
                       /\ \A c \in checks :
                             c.id = id =>
                                LET d == RowOf(o.checks, id)
                                IN  /\ d.issuer_id = c.issuer_id
                                    /\ d.payee_id = c.payee_id
                                    /\ d.amount = c.amount
                                    /\ d.issued_at = c.issued_at

\* an accepted check whose sender was cleared, next to a DENIED check its
\* payee may accept
C5_Witness ==
    \E c, d \in checks :
       /\ c.status = "ACCEPTED" /\ c.sender_id = NULL
       /\ d.status = "DENIED" /\ d.payee_id \in CallerIds

\* C6: when the payee accepts the same check twice in a row, the first call
\* succeeds and the second fails as not eligible and changes no row.
C6_AcceptTwice ==
    \A u \in CallerIds, id \in CheckArgs :
       \A o1 \in accept_check(users, checks, lastCheckId, u, id, NoName) :
          o1.ok =>
             LET second == accept_check(o1.users, o1.checks, o1.lastCheckId,
                                        u, id, NoName)
             IN  /\ second # {}
                 /\ \A o2 \in second :
                       /\ ~o2.ok
                       /\ o2.msg = "Check not found or not available to accept."
                       /\ o2.id = NULL
                       /\ o2.checks = o1.checks

\* between the two calls: an ACCEPTED check with its sender cleared, whose
\* payee calls accept again and is refused
C6_Witness ==
    \E c \in checks :
       /\ c.status = "ACCEPTED" /\ c.sender_id = NULL
       /\ c.payee_id \in CallerIds
       /\ \A o \in accept_check(users, checks, lastCheckId, c.payee_id, c.id,
                                NoName) : ~o.ok

\* the caller may deny the check: payee of a PENDING or ACCEPTED check
Deniable(u, id) ==
    \E c \in checks :
       c.id = id /\ c.payee_id = u /\ c.status \in {"PENDING", "ACCEPTED"}

\* C7: deny by check id succeeds exactly when the caller is the payee of a
\* PENDING or ACCEPTED check; then status is DENIED and sender_id, payee_id,
\* issuer_id, issued_at are kept; a failing deny changes nothing.
C7_DenyById ==
    \A u \in CallerIds, id \in CheckArgs :
       LET outs == deny_check(users, checks, lastCheckId, u, id, NoName)
       IN  /\ outs # {}
           /\ \A o \in outs :
                 /\ o.ok <=> Deniable(u, id)
                 /\ ~o.ok => o.checks = checks /\ o.users = users
                 /\ o.ok =>
                       /\ Ids(o.checks) = Ids(checks)
                       /\ \A c \in checks, d \in o.checks :
                             c.id = id /\ d.id = id =>
                                /\ d.status = "DENIED"
                                /\ d.sender_id = c.sender_id
                                /\ d.payee_id = c.payee_id
                                /\ d.issuer_id = c.issuer_id
                                /\ d.issued_at = c.issued_at

\* a DENIED check that kept its sender, next to an ACCEPTED one its payee
\* may deny
C7_Witness ==
    \E c, d \in checks :
       /\ c.status = "DENIED" /\ c.sender_id # NULL
       /\ d.status = "ACCEPTED" /\ d.payee_id \in CallerIds

\* C8: cancel_forward succeeds only for the sender of a PENDING check at most
\* one hour after issued_at; then payee_id is the caller, status ACCEPTED and
\* sender_id the caller if the caller is the issuer, else null.
C8_CancelForward ==
    \A u \in CallerIds, id \in CheckArgs :
       \A o \in cancel_forward(users, checks, lastCheckId, now, u, id) :
          o.ok =>
             /\ \E c \in checks :
                   /\ c.id = id /\ c.sender_id = u /\ c.status = "PENDING"
                   /\ now - c.issued_at <= WindowTicks
             /\ \A c \in checks, d \in o.checks :
                   c.id = id /\ d.id = id =>
                      /\ d.payee_id = u
                      /\ d.status = "ACCEPTED"
                      /\ d.sender_id = IF c.issuer_id = u THEN u ELSE NULL

\* a check its issuer took back from the payee: ACCEPTED, held by the issuer,
\* sender_id the issuer, and time has passed since the hand-off
C8_Witness ==
    \E c \in checks :
       /\ c.status = "ACCEPTED" /\ c.sender_id = c.issuer_id
       /\ c.payee_id = c.issuer_id /\ c.issued_at < now

\* C9: on an otherwise eligible check cancel_forward and cancel_issuance
\* succeed whenever the elapsed time is at most 3600 s, exactly 3600 s
\* included, and fail as expired, changing nothing, whenever it is more.
C9_WindowBoundary ==
    \A u \in CallerIds, c \in checks :
       c.status = "PENDING" =>
          /\ c.sender_id = u =>
                \A o \in cancel_forward(users, checks, lastCheckId, now,
                                        u, c.id) :
                   IF now - c.issued_at <= WindowTicks
                   THEN o.ok
                   ELSE /\ ~o.ok
                        /\ o.msg = "Cannot cancel: 1-hour revocation window has expired."
                        /\ o.checks = checks
          /\ c.issuer_id = u =>
                \A o \in cancel_issuance(users, checks, lastCheckId, now,
                                         u, c.id) :
                   IF now - c.issued_at <= WindowTicks
                   THEN o.ok
                   ELSE /\ ~o.ok
                        /\ o.msg = "Cannot cancel: 1-hour revocation window has expired."
                        /\ o.checks = checks

\* a PENDING check exactly 3600 s after its hand-off, its sender and issuer
\* able to call
C9_Witness ==
    \E c \in checks :
       /\ c.status = "PENDING" /\ now - c.issued_at = WindowTicks
       /\ c.sender_id \in CallerIds /\ c.issuer_id \in CallerIds

\* the issuer may cancel the issuance: PENDING and within the window
Cancellable(u, id) ==
    \E c \in checks :
       /\ c.id = id /\ c.issuer_id = u /\ c.status = "PENDING"
       /\ now - c.issued_at <= WindowTicks

\* C10: cancel_issuance succeeds only for the issuer of a PENDING check at
\* most one hour after issued_at; then exactly that row is removed and the
\* others are unchanged; otherwise it fails and removes nothing.
C10_CancelIssuance ==
    \A u \in CallerIds, id \in CheckArgs :
       \A o \in cancel_issuance(users, checks, lastCheckId, now, u, id) :
          /\ o.ok <=> Cancellable(u, id)
          /\ o.ok => o.checks = {c \in checks : c.id # id}
                     /\ Cardinality(o.checks) = Cardinality(checks) - 1
          /\ ~o.ok => o.checks = checks
          /\ o.users = users

\* one of two issued checks was removed and the other is stored
C10_Witness ==
    /\ lastCheckId = 2
    /\ Cardinality(checks) = 1
    /\ \E c \in checks, u \in CallerIds : Cancellable(u, c.id)

\* the row is as issue_check wrote it: accept clears sender_id and forward
\* sets it to the forwarding holder, so any other sender_id shows the check
\* was handled since its issuance
AsIssued(c) == c.status = "PENDING" /\ c.sender_id = c.issuer_id

\* C11: cancel_issuance deletes a check only if it is an original, untouched
\* issuance: never accepted, denied, forwarded, cancelled back or revoked
\* since it was issued, so its row is still as issue_check wrote it.
C11_DeletesOnlyUntouched ==
    \A u \in CallerIds, id \in CheckArgs :
       \A o \in cancel_issuance(users, checks, lastCheckId, now, u, id) :
          o.ok => \A c \in checks : c.id = id => AsIssued(c)

\* C12: revoke_incoming_decision succeeds exactly when the caller is the
\* payee of the check, for every status and at every time; then status is
\* PENDING and payee_id, sender_id, issuer_id, issued_at are unchanged; when
\* the caller is not the payee it fails and changes nothing.
C12_RevokeDecision ==
    \A u \in CallerIds, id \in CheckArgs :
       LET outs == revoke_incoming_decision(users, checks, lastCheckId, u, id)
       IN  /\ outs # {}
           /\ \A o \in outs :
                 /\ o.ok <=> \E c \in checks : c.id = id /\ c.payee_id = u
                 /\ ~o.ok => o.checks = checks /\ o.users = users
                 /\ o.ok =>
                       /\ Ids(o.checks) = Ids(checks)
                       /\ o.users = users
                       /\ \A c \in checks : c.id # id => c \in o.checks
                       /\ \A c \in checks, d \in o.checks :
                             c.id = id /\ d.id = id =>
                                /\ d.status = "PENDING"
                                /\ d.payee_id = c.payee_id
                                /\ d.sender_id = c.sender_id
                                /\ d.issuer_id = c.issuer_id
                                /\ d.issued_at = c.issued_at

\* an accepted check that was reset to PENDING (its sender stays cleared),
\* next to a DENIED check that kept its sender, more than one hour after its
\* hand-off, whose payee may call
C12_Witness ==
    \E c, d \in checks :
       /\ c.status = "PENDING" /\ c.sender_id = NULL
       /\ d.status = "DENIED" /\ d.sender_id # NULL
       /\ d.payee_id \in CallerIds
       /\ now - d.issued_at > WindowTicks

\* what the payee u may do to check id after accepting it: nothing, deny it,
\* reset it, or forward it on
PayeeThen(o, u, id) ==
    {o} \cup deny_check(o.users, o.checks, o.lastCheckId, u, id, NoName)
        \cup revoke_incoming_decision(o.users, o.checks, o.lastCheckId, u, id)
        \cup UNION {forward_check(o.users, o.checks, o.lastCheckId, now, u, id, n)
                       : n \in NameInputs}

\* C13: once the payee has accepted a check, the party that sent it can
\* never pull it back: after the accept, whatever the payee does next, no
\* cancel_forward or cancel_issuance by the sender on that check succeeds
\* (the sender being another party than the payee, and not having forwarded
\* the check again).
C13_NoPullBackAfterAccept ==
    \A c \in checks :
       c.sender_id # NULL /\ c.sender_id # c.payee_id =>
          \A o1 \in accept_check(users, checks, lastCheckId, c.payee_id, c.id, NoName) :
             o1.ok =>
                \A o2 \in PayeeThen(o1, c.payee_id, c.id) :
                   \A o3 \in cancel_forward(o2.users, o2.checks, o2.lastCheckId, now, c.sender_id, c.id)
                               \cup cancel_issuance(o2.users, o2.checks, o2.lastCheckId, now, c.sender_id, c.id) :
                      ~o3.ok

\* C14 as stated: in every reachable state a check whose sender_id is
\* non-null is an outstanding hand-off, so its status is PENDING.
C14_SenderMeansPending ==
    \A c \in checks : c.sender_id # NULL => c.status = "PENDING"

\* C14, amended: in every reachable state a check whose sender_id is
\* non-null is PENDING or DENIED, or it is ACCEPTED in the hands of its own
\* issuer with sender_id = issuer_id (the issuer took its hand-off back); its
\* sender can cancel the hand-off while it is PENDING and at most one hour
\* has passed since issued_at, and in no other case.
C14_SenderKept ==
    \A c \in checks :
       c.sender_id # NULL =>
          /\ \/ c.status \in {"PENDING", "DENIED"}
             \/ /\ c.status = "ACCEPTED"
                /\ c.sender_id = c.issuer_id
                /\ c.payee_id = c.issuer_id
          /\ \A o \in cancel_forward(users, checks, lastCheckId, now, c.sender_id, c.id) :
                o.ok <=> c.status = "PENDING" /\ now - c.issued_at <= WindowTicks

\* a DENIED check that kept the sender who handed it over, next to an
\* ACCEPTED check its issuer took back and still names as sender
C14_Witness ==
    \E c, d \in checks :
       /\ c.status = "DENIED" /\ c.sender_id # NULL
       /\ c.sender_id # c.payee_id
       /\ d.status = "ACCEPTED" /\ d.sender_id = d.issuer_id
       /\ d.payee_id = d.issuer_id

C16_UnknownIssuerFails ==
    \A u \in CallerIds, n \in NameInputs, a \in AnyAmounts :
       u \notin DOMAIN users =>
          \A o \in issue_check(users, checks, lastCheckId, now, u, n, a, NULL, 0) :
             ~o.ok /\ o.id = NULL /\ o.checks = checks

\* sub occurs in text as a run of consecutive characters
Contains(text, sub) ==
    \E k \in 0 .. Len(text) - Len(sub) :
       SubSeq(text, k + 1, k + Len(sub)) = sub

\* resolve(name) as specified: the party whose name equals the trimmed name
\* ignoring case; else the only party whose name contains it ignoring case;
\* else one new party with the trimmed name and zero balance
ResolvesAsSpecified(us, name) ==
    LET clean == Strip(name)
        equal == {i \in DOMAIN us : Lower(us[i].username) = Lower(clean)}
        holding == {i \in DOMAIN us :
                       Contains(Lower(us[i].username), Lower(clean))}
        outs == resolve_user(us, name)
    IN  /\ outs # {}
        /\ \A r \in outs :
              IF equal # {}
              THEN r.id \in equal /\ r.users = us
              ELSE IF Cardinality(holding) = 1
              THEN r.id \in holding /\ r.users = us
              ELSE /\ r.id = Len(us) + 1
                   /\ r.users = Append(us, [username |-> clean, balance |-> 0])

\* names without a LIKE wildcard
PlainNames == {n \in ResolverNames : \A i \in DOMAIN n : n[i] \notin {"_", "%"}}

\* for names without a wildcard resolve(name) is as specified
ResolvesPlainNames ==
    \A n \in PlainNames : ResolvesAsSpecified(users, n)

\* C17: resolve(name) returns the party whose name equals the trimmed name
\* ignoring case if there is one; otherwise the party whose name contains
\* the name ignoring case if there is exactly one; otherwise it creates one
\* new party with the trimmed name and zero balance and returns it.
C17_ResolveContract ==
    \A n \in ResolverNames : ResolvesAsSpecified(users, n)

\* C18: the resolver gives a name a stable identity: if resolve(name)
\* returned party p, a later resolve of the same name returns p, whatever
\* other name was resolved, and party created, in between (names without a
\* wildcard).
C18_StableIdentity ==
    \A n, m \in PlainNames :
       \A r1 \in resolve_user(users, n) :
          \A r2 \in resolve_user(r1.users, m) :
             \A r3 \in resolve_user(r2.users, n) :
                r3.id = r1.id

\* the checks in the listing of party u
Listing(u) ==
    LET l == get_user_checks(users, checks, u)
    IN  {l[i].check : i \in DOMAIN l}

\* the stored checks that name party u as issuer, payee or sender
Naming(u) ==
    {c \in checks : c.issuer_id = u \/ c.payee_id = u \/ c.sender_id = u}

\* C19: get_checks(party) returns every stored check whose issuer_id,
\* payee_id or sender_id is that party and no other check, also when the
\* check's issuer_id is not a registered party.
C19_ListsEveryCheck ==
    \A u \in CallerIds : Listing(u) = Naming(u)

\* the listing holds nothing else, and misses no check of a registered issuer
ListsChecksOfRegisteredIssuers ==
    \A u \in CallerIds :
       /\ Listing(u) \subseteq Naming(u)
       /\ \A c \in Naming(u) : c.issuer_id \in DOMAIN users => c \in Listing(u)

\* the categories of a listing
Categories ==
    {"WALLET", "DENIED_HISTORY", "INCOMING", "ISSUED", "FORWARDED", "OTHER"}

\* C20: every check returned by get_checks for a party appears once and has
\* exactly one category: wallet if the party is payee and the status is
\* ACCEPTED, denied-history if payee and DENIED, incoming if payee with any
\* other status; otherwise issued if the party is issuer; otherwise forwarded
\* if the party is sender and not issuer; otherwise other.
C20_CategoryPriority ==
    \A u \in CallerIds :
       LET l == get_user_checks(users, checks, u)
       IN  /\ \A i, j \in DOMAIN l : l[i].check.id = l[j].check.id => i = j
           /\ \A i \in DOMAIN l :
                 LET c == l[i].check
                     k == l[i].category
                 IN  /\ k \in Categories
                     /\ c.payee_id = u /\ c.status = "ACCEPTED" => k = "WALLET"
                     /\ c.payee_id = u /\ c.status = "DENIED" => k = "DENIED_HISTORY"
                     /\ c.payee_id = u /\ c.status \notin {"ACCEPTED", "DENIED"}
                           => k = "INCOMING"
                     /\ c.payee_id # u /\ c.issuer_id = u => k = "ISSUED"
                     /\ c.payee_id # u /\ c.issuer_id # u /\ c.sender_id = u
                           => k = "FORWARDED"
                     /\ c.payee_id # u /\ c.issuer_id # u /\ c.sender_id # u
                           => k = "OTHER"

\* a party whose listing holds a check it forwarded and a check it issued to
\* itself, which is listed among its incoming checks
C20_Witness ==
    \E u \in CallerIds :
       LET l == get_user_checks(users, checks, u)
       IN  \E i, j \in DOMAIN l :
              /\ l[i].category = "FORWARDED"
              /\ l[j].category = "INCOMING" /\ l[j].check.issuer_id = u

\* the engine operation the specified routing order names for caller u and
\* the row c: sender of a PENDING check, else issuer of a PENDING check, else
\* payee of an ACCEPTED or DENIED check, else none
RoutedTo(c, u) ==
    IF c.sender_id = u /\ c.status = "PENDING" THEN "cancel_forward"
    ELSE IF c.issuer_id = u /\ c.status = "PENDING" THEN "cancel_issuance"
    ELSE IF c.payee_id = u /\ c.status \in {"ACCEPTED", "DENIED"}
    THEN "revoke_incoming_decision"
    ELSE "none"

\* the outcomes of that engine operation called directly
EngineOf(op, u, id) ==
    IF op = "cancel_forward"
    THEN cancel_forward(users, checks, lastCheckId, now, u, id)
    ELSE IF op = "cancel_issuance"
    THEN cancel_issuance(users, checks, lastCheckId, now, u, id)
    ELSE revoke_incoming_decision(users, checks, lastCheckId, u, id)

\* C21: for a REVOKE_OP on an existing check the router calls, by the
\* current row, cancel_forward if the caller is sender_id and the status
\* PENDING; else cancel_issuance if the caller is issuer_id and the status
\* PENDING; else revoke_incoming_decision if the caller is payee_id and the
\* status ACCEPTED or DENIED; in every other case it calls no engine
\* operation, changes nothing and reports failure.
C21_RevokeDispatch ==
    \A u \in CallerIds, c \in checks :
       LET outs == execute_revoke_operation(users, checks, lastCheckId, now, u, <<c.id>>)
           op == RoutedTo(c, u)
       IN  /\ outs # {}
           /\ \A o \in outs :
                 IF op = "none"
                 THEN /\ o.calls = <<>> /\ ~o.ok
                      /\ o.checks = checks /\ o.users = users
                 ELSE /\ o.calls = << <<op, c.id>> >>
                      /\ \E e \in EngineOf(op, u, c.id) :
                            /\ o.ok = e.ok
                            /\ o.checks = e.checks /\ o.users = e.users

\* a forwarded check, whose issuer and sender are different parties, next to
\* a check its issuer revoked right after issuing it: the sender branch was
\* taken and the issuer holds it as ACCEPTED
C21_Witness ==
    \E c, d \in checks :
       /\ Forwarded(c) /\ c.issuer_id \in CallerIds
       /\ d.status = "ACCEPTED" /\ d.sender_id = d.issuer_id
       /\ d.payee_id = d.issuer_id

\* C22: when the issuer sends a REVOKE_OP for a check they have just issued,
\* that nobody has handled and that is within the hour, the router calls
\* cancel_issuance and the check is removed from the store.
C22_IssuerRevokeDeletes ==
    \A u \in CallerIds, n \in NameInputs, a \in Amounts :
       \A o1 \in issue_check(users, checks, lastCheckId, now, u, n, a, NULL, 0) :
          \A o2 \in execute_revoke_operation(o1.users, o1.checks, o1.lastCheckId, now, u, <<o1.id>>) :
             /\ o2.calls = << <<"cancel_issuance", o1.id>> >>
             /\ o1.id \notin Ids(o2.checks)

\* C23: an accept-all request by party u accepts every PENDING check whose
\* payee is u and no other check: afterwards no check of payee u is PENDING,
\* and the DENIED checks of u and the checks of other payees are unchanged.
C23_AcceptAll ==
    \A u \in CallerIds :
       \A o \in execute_accept_check(users, checks, lastCheckId, u, TRUE, <<>>) :
          /\ \A c \in o.checks : c.payee_id = u => c.status # "PENDING"
          /\ \A c \in checks :
                IF c.payee_id = u /\ c.status = "PENDING"
                THEN accept_update(c) \in o.checks
                ELSE c \in o.checks

\* accept-all does that for the checks whose issuer is a registered party
AcceptAllOfRegisteredIssuers ==
    \A u \in CallerIds :
       \A o \in execute_accept_check(users, checks, lastCheckId, u, TRUE, <<>>) :
          /\ Ids(o.checks) = Ids(checks)
          /\ \A c \in checks :
                IF c.payee_id = u /\ c.status = "PENDING" /\ c.issuer_id \in DOMAIN users
                THEN accept_update(c) \in o.checks
                ELSE c \in o.checks

\* the request issued one audit-log call, with the status of its outcome
LoggedAs(o, ok) ==
    /\ Len(o.logs) = 1
    /\ o.logs[1].status = IF ok THEN "SUCCESS" ELSE "FAILED"

\* C24: every router-level operation issues an audit-log call whose status
\* is SUCCESS when the engine operation succeeded and FAILED when it failed;
\* a failed accept, deny or revoke is recorded as FAILED (requests for one
\* check id).
C24_AuditLogged ==
    \A u \in CallerIds, id \in 1 .. MaxChecks :
       /\ \A e \in accept_check(users, checks, lastCheckId, u, id, NoName) :
             \A o \in execute_accept_check(users, checks, lastCheckId, u, FALSE, <<id>>) :
                LoggedAs(o, e.ok)
       /\ \A e \in deny_check(users, checks, lastCheckId, u, id, NoName) :
             \A o \in execute_deny_check(users, checks, lastCheckId, u, <<id>>) :
                LoggedAs(o, e.ok)
       /\ \A o \in execute_revoke_operation(users, checks, lastCheckId, now, u, <<id>>) :
             LoggedAs(o, o.ok)
       /\ \A n \in NameInputs :
             \A o \in execute_forward_check(users, checks, lastCheckId, now, u, id, n) :
                LoggedAs(o, o.ok)

\* the handlers that log both outcomes: issue and forward
IssueAndForwardLogged ==
    \A u \in CallerIds, id \in CheckIdInputs, n \in NameInputs, a \in Amounts :
       /\ \A o \in execute_forward_check(users, checks, lastCheckId, now, u, id, n) :
             LoggedAs(o, o.ok)
       /\ \A o \in execute_issue_check(users, checks, lastCheckId, now, u, n, a, NULL) :
             LoggedAs(o, o.ok)

\* accept, deny and revoke log each successful call as SUCCESS and a failed
\* call not at all
FailuresNotLogged ==
    \A u \in CallerIds, ids \in IdLists :
       \A o \in execute_accept_check(users, checks, lastCheckId, u, FALSE, ids)
                  \cup execute_deny_check(users, checks, lastCheckId, u, ids)
                  \cup execute_revoke_operation(users, checks, lastCheckId, now, u, ids) :
          \A i \in DOMAIN o.logs : o.logs[i].status = "SUCCESS"

\* what the caller of an engine operation gets back
Returned(outs) == {<<o.ok, o.msg, o.id>> : o \in outs}

\* what the caller of a router request gets back: the success flag and the
\* result messages (without the check number the caller gave)
RoutedBack(outs) ==
    {<<o.ok, [i \in DOMAIN o.results |-> o.results[i][2]]>> : o \in outs}

\* caller u is neither issuer, payee nor sender of check c
Stranger(u, c) == u # c.issuer_id /\ u # c.payee_id /\ u # c.sender_id

\* check ids that name no stored check
MissingIds == (1 .. MaxChecks + 1) \ Ids(checks)

\* the engine operations return the same to a stranger of an existing check
\* as for a check id that does not exist
EngineConflatesNotFound ==
    \A u \in CallerIds, c \in checks, m \in MissingIds :
       Stranger(u, c) =>
          /\ Returned(accept_check(users, checks, lastCheckId, u, c.id, NoName))
                = Returned(accept_check(users, checks, lastCheckId, u, m, NoName))
          /\ Returned(deny_check(users, checks, lastCheckId, u, c.id, NoName))
                = Returned(deny_check(users, checks, lastCheckId, u, m, NoName))
          /\ \A n \in NameInputs :
                Returned(forward_check(users, checks, lastCheckId, now, u, c.id, n))
                   = Returned(forward_check(users, checks, lastCheckId, now, u, m, n))
          /\ Returned(cancel_forward(users, checks, lastCheckId, now, u, c.id))
                = Returned(cancel_forward(users, checks, lastCheckId, now, u, m))
          /\ Returned(cancel_issuance(users, checks, lastCheckId, now, u, c.id))
                = Returned(cancel_issuance(users, checks, lastCheckId, now, u, m))
          /\ Returned(revoke_incoming_decision(users, checks, lastCheckId, u, c.id))
                = Returned(revoke_incoming_decision(users, checks, lastCheckId, u, m))

\* the router's REVOKE_OP does the same
RevokeOpConflatesNotFound ==
    \A u \in CallerIds, c \in checks, m \in MissingIds :
       Stranger(u, c) =>
          RoutedBack(execute_revoke_operation(users, checks, lastCheckId, now, u, <<c.id>>))
             = RoutedBack(execute_revoke_operation(users, checks, lastCheckId, now, u, <<m>>))

\* C25: no information leaks about checks the caller does not own: accept,
\* deny, forward, cancel_forward, cancel_issuance, revoke_incoming_decision
\* and the router's REVOKE_OP return the same result for a check id that
\* does not exist as for an existing check of which the caller is neither
\* issuer, payee nor sender.
C25_NoLeak ==
    EngineConflatesNotFound /\ RevokeOpConflatesNotFound

\* C26: each lifecycle operation is a single write, so a store failure at
\* any point of the call leaves the check store and the party store exactly
\* as they were before the call (the failure taken at the write of the check
\* in issue and in forward).
C26_FailureLeavesStores ==
    \A u \in CallerIds, n \in NameInputs :
       /\ \A o \in issue_check_rejected(users, checks, lastCheckId, n) :
             o.users = users /\ o.checks = checks
       /\ \A id \in CheckIdInputs :
             \A o \in forward_check_rejected(users, checks, lastCheckId, u, id, n) :
                o.users = users /\ o.checks = checks

\* an operation commits at most one write: a successful issue or forward
\* changes the checks table only
OneWritePerCall ==
    \A u \in CallerIds, n \in NameInputs, a \in Amounts, id \in CheckIdInputs :
       \A o \in issue_check(users, checks, lastCheckId, now, u, n, a, NULL, 0)
                  \cup forward_check(users, checks, lastCheckId, now, u, id, n) :
          o.ok => o.users = users

\* C27: eligibility is read and the update written in two separate steps,
\* so a call of accept that observed the check eligible returns success
\* whatever was committed between its read and its write; two concurrent
\* accept calls by the payee on the same PENDING check can thus both observe
\* eligibility and both return success (the state of C27_Witness).
C27_ObservedMeansSuccess ==
    \A r \in Requests :
       inflight[r].pc = "done" /\ inflight[r].rows # {} => inflight[r].ok

\* both requests, by the same payee, read the same PENDING row as it was
\* handed over, and both have returned success
C27_Witness ==
    /\ \A r \in Requests : inflight[r].pc = "done" /\ inflight[r].ok
    /\ inflight["r1"].user_id = inflight["r2"].user_id
    /\ inflight["r1"].rows = inflight["r2"].rows
    /\ \E c \in inflight["r1"].rows :
          c.status = "PENDING" /\ c.sender_id # NULL

\* C28: no status is terminal: for every stored check, in every reachable
\* state, revoke_incoming_decision by its current payee succeeds and leaves
\* it PENDING, and when its status is ACCEPTED a forward by its current
\* payee succeeds.
C28_NoTerminalStatus ==
    \A c \in checks :
       /\ LET outs == revoke_incoming_decision(users, checks, lastCheckId, c.payee_id, c.id)
          IN  /\ outs # {}
              /\ \A o \in outs :
                    o.ok /\ \A d \in o.checks : d.id = c.id => d.status = "PENDING"
       /\ c.status = "ACCEPTED" =>
             \A n \in NameInputs :
                LET outs == forward_check(users, checks, lastCheckId, now, c.payee_id, c.id, n)
                IN  /\ outs # {}
                    /\ \A o \in outs :
                          o.ok /\ \E d \in o.checks : d.id = c.id /\ d.status = "PENDING"

\* more than one hour after the hand-offs: a check reopened after it was
\* accepted, next to an ACCEPTED check its payee may forward
C28_Witness ==
    /\ now > WindowTicks
    /\ \E c, d \in checks :
          /\ c.status = "PENDING" /\ c.sender_id = NULL
          /\ d.status = "ACCEPTED" /\ d.sender_id = NULL

\* C29: in every step the issuer_id of every check that stays stored is
\* unchanged, and a row that appears has an id above every id issued
\* before, so the id of a deleted check is never given to a later check.
C29_IssuerAndIdStable ==
    [][/\ \A c \in checks, d \in checks' : c.id = d.id => d.issuer_id = c.issuer_id
       /\ lastCheckId' >= lastCheckId
       /\ \A d \in checks' : d.id \notin Ids(checks) =>
             d.id > lastCheckId /\ d.id = lastCheckId']_vars

\* the first check was deleted, and the check issued next has id 2 and was
\* forwarded on by a holder who is not its issuer
C29_Witness ==
    /\ Ids(checks) = {2}
    /\ \E c \in checks : Forwarded(c) /\ c.payee_id # c.issuer_id

\* C30: only the current payee can decide on a check: whatever was done
\* before, accept, deny, forward and revoke_incoming_decision called for a
\* check by a party other than its payee fail and change nothing, and no
\* accept or deny, by check id or by issuer name, changes a check of which
\* the caller is not the payee.
C30_OnlyPayeeDecides ==
    \A u \in CallerIds :
       /\ \A c \in checks :
             c.payee_id # u =>
                \A o \in accept_check(users, checks, lastCheckId, u, c.id, NoName)
                           \cup deny_check(users, checks, lastCheckId, u, c.id, NoName)
                           \cup revoke_incoming_decision(users, checks, lastCheckId, u, c.id)
                           \cup UNION {forward_check(users, checks, lastCheckId, now, u, c.id, n)
                                          : n \in NameInputs} :
                   ~o.ok /\ o.checks = checks /\ o.users = users
       /\ \A a \in LookupArgs :
             \A o \in accept_check(users, checks, lastCheckId, u, a[1], a[2])
                        \cup deny_check(users, checks, lastCheckId, u, a[1], a[2]) :
                \A c \in checks : c.payee_id # u => c \in o.checks

\* a forwarded check whose issuer, former holder and payee are three
\* different parties, next to an ACCEPTED check
C30_Witness ==
    \E c, d \in checks :
       /\ Forwarded(c)
       /\ c.payee_id # c.issuer_id /\ c.payee_id # c.sender_id
       /\ d.status = "ACCEPTED"

\* the checks holder may accept that were issued by party i
AcceptableFromIssuer(holder, i) ==
    {c \in checks : /\ c.payee_id = holder /\ c.status \in AcceptFrom
                    /\ c.issuer_id = i}

\* C31: a payee can accept a check by naming its issuer: accept(holder,
\* issuer_name = N) succeeds whenever holder is the payee of at least one
\* PENDING or DENIED check whose issuer_id is the party N resolves to, and
\* it accepts one such check.
C31_AcceptByIssuerName ==
    \A holder \in CallerIds, N \in NameInputs :
       \A r \in resolve_user(users, N) :
          AcceptableFromIssuer(holder, r.id) # {} =>
             \A o \in accept_check(users, checks, lastCheckId, holder, NULL, N) :
                /\ o.ok
                /\ \E c \in AcceptableFromIssuer(holder, r.id) :
                      /\ o.id = c.id
                      /\ o.checks = (checks \ {c}) \cup {accept_update(c)}

\* what the lookup by name does: it succeeds exactly when holder is the
\* payee of a PENDING or DENIED check whose sender_id is the party N
\* resolves to, and accepts one such check
AcceptsBySenderName ==
    \A holder \in CallerIds, N \in NameInputs :
       \A o \in accept_check(users, checks, lastCheckId, holder, NULL, N) :
          \E r \in resolve_user(users, N) :
             LET from == {c \in checks : /\ c.payee_id = holder
                                         /\ c.status \in AcceptFrom
                                         /\ c.sender_id = r.id}
             IN  /\ o.ok <=> from # {}
                 /\ o.ok => \E c \in from :
                               /\ o.id = c.id
                               /\ o.checks = (checks \ {c}) \cup {accept_update(c)}

\* C32: cancel_forward pulls back a forwarded check only: on a check that
\* was issued and never forwarded it does not succeed, whoever calls.
C32_CancelForwardOnlyForwarded ==
    \A u \in CallerIds, n \in NameInputs, a \in Amounts :
       \A o \in issue_check(users, checks, lastCheckId, now, u, n, a, NULL, 0) :
          \A v \in CallerIds :
             \A p \in cancel_forward(o.users, o.checks, o.lastCheckId, now, v, o.id) :
                ~p.ok

BothDone == \A r \in Requests : inflight[r].pc = "done"

\* C34: an accept by the payee and a cancel_forward by the sender on the
\* same PENDING hand-off (a check forwarded by the sender to another party
\* and not yet decided on) never both report success, under every
\* interleaving of the read and write steps of the two calls; whenever the
\* accept reported success the check ends with the accepting party as
\* payee_id.
C34_AcceptOrCancel ==
    \A r, q \in Requests :
       (/\ BothDone
        /\ inflight[r].op = "accept_check"
        /\ inflight[q].op = "cancel_forward"
        /\ \E c \in inflight[r].base.checks :
              /\ c.id = inflight[r].check_id /\ Forwarded(c)
              /\ c.payee_id = inflight[r].user_id
              /\ c.sender_id = inflight[q].user_id
              /\ c.sender_id # c.payee_id)
       => /\ ~(inflight[r].ok /\ inflight[q].ok)
          /\ inflight[r].ok =>
                \A c \in checks :
                   c.id = inflight[r].check_id => c.payee_id = inflight[r].user_id

\* the outcomes of a call as one atomic step on the tables us, cs
AtomicCall(us, cs, call) ==
    IF call.op = "accept_check"
    THEN accept_check(us, cs, lastCheckId, call.user_id, call.check_id, NoName)
    ELSE IF call.op = "forward_check"
    THEN forward_check(us, cs, lastCheckId, now, call.user_id, call.check_id, ForwardTo)
    ELSE IF call.op = "cancel_forward"
    THEN cancel_forward(us, cs, lastCheckId, now, call.user_id, call.check_id)
    ELSE cancel_issuance(us, cs, lastCheckId, now, call.user_id, call.check_id)

\* call a then call b, each atomic, from the tables of base: the results
\* returned and the checks left
Sequential(base, a, b) ==
    UNION {{<<oa.ok, ob.ok, ob.checks>>
               : ob \in AtomicCall(oa.users, oa.checks, b)}
              : oa \in AtomicCall(base.users, base.checks, a)}

\* C35: the engine that reads eligibility and then updates by id refines the
\* engine of atomic conditional writes: for every interleaving of two
\* concurrent calls on the same check, the results returned and the final
\* checks equal those of one of the two sequential orders of the calls.
C35_Linearizable ==
    BothDone =>
       LET a == inflight["r1"]
           b == inflight["r2"]
       IN  \/ <<a.ok, b.ok, checks>> \in Sequential(a.base, a, b)
           \/ <<b.ok, a.ok, checks>> \in Sequential(a.base, b, a)

\* the rows of check id after holder H forwarded it to name n and took the
\* forward back at once; {} when one of the two calls fails
ForwardAndBack(H, id, n) ==
    UNION {UNION {IF o1.ok /\ o2.ok THEN {d \in o2.checks : d.id = id} ELSE {}
                     : o2 \in cancel_forward(o1.users, o1.checks, o1.lastCheckId,
                                             now, H, id)}
              : o1 \in forward_check(users, checks, lastCheckId, now, H, id, n)}

\* C36 as stated: forward followed at once by cancel_forward by the same
\* holder is a round trip: for every check held ACCEPTED by H, after
\* forward(H, id, name) and cancel_forward(H, id) the id, issuer_id,
\* payee_id, status and sender_id of the check are as before the forward.
C36_RoundTrip ==
    \A n \in NameInputs :
       \A c \in checks :
          c.status = "ACCEPTED" /\ c.payee_id \in CallerIds =>
             /\ ForwardAndBack(c.payee_id, c.id, n) # {}
             /\ \A d \in ForwardAndBack(c.payee_id, c.id, n) :
                   /\ d.id = c.id /\ d.issuer_id = c.issuer_id
                   /\ d.payee_id = c.payee_id /\ d.status = c.status
                   /\ d.sender_id = c.sender_id

\* C36, amended: for every check held ACCEPTED by H, forward(H, id, name)
\* and then cancel_forward(H, id) at once both succeed and leave id,
\* issuer_id, payee_id, status, amount and maturity_date as before the
\* forward; sender_id is as before when H is not the issuer of the check
\* (null), and is H when H is the issuer, whatever it was before.
C36_RoundTripButSender ==
    \A n \in NameInputs :
       \A c \in checks :
          c.status = "ACCEPTED" /\ c.payee_id \in CallerIds =>
             /\ ForwardAndBack(c.payee_id, c.id, n) # {}
             /\ \A d \in ForwardAndBack(c.payee_id, c.id, n) :
                   /\ d.id = c.id /\ d.issuer_id = c.issuer_id
                   /\ d.payee_id = c.payee_id /\ d.status = c.status
                   /\ d.amount = c.amount /\ d.maturity_date = c.maturity_date
                   /\ c.issuer_id # c.payee_id =>
                         d.sender_id = c.sender_id /\ d.sender_id = NULL
                   /\ c.issuer_id = c.payee_id => d.sender_id = c.payee_id

\* an ACCEPTED check held by its own issuer with sender_id null, next to an
\* ACCEPTED check held by a party that did not issue it, some time after
\* the checks were handed over
C36_Witness ==
    \E c, d \in checks :
       /\ c.status = "ACCEPTED" /\ c.payee_id = c.issuer_id
       /\ c.sender_id = NULL
       /\ d.status = "ACCEPTED" /\ d.payee_id # d.issuer_id
       /\ d.payee_id \in CallerIds
       /\ now > d.issued_at

\* C37: in every state reached by sequential engine operations from the
\* empty store, a check with status ACCEPTED has sender_id null, or has
\* sender_id = issuer_id = payee_id.
C37_AcceptedSender ==
    \A c \in checks :
       c.status = "ACCEPTED" =>
          \/ c.sender_id = NULL
          \/ c.sender_id = c.issuer_id /\ c.sender_id = c.payee_id

\* two ACCEPTED checks: one accepted by a payee other than its issuer, one
\* taken back by its issuer with cancel_forward
C37_Witness ==
    \E c, d \in checks :
       /\ c.status = "ACCEPTED" /\ c.sender_id = NULL
       /\ c.payee_id # c.issuer_id
       /\ d.status = "ACCEPTED" /\ d.sender_id = d.issuer_id
       /\ d.sender_id = d.payee_id

\* the outcomes of every engine operation other than issue, for caller u,
\* the lookup arguments a, the check id and the payee name n
EngineOutcomes(u, a, id, n) ==
    accept_check(users, checks, lastCheckId, u, a[1], a[2])
       \cup deny_check(users, checks, lastCheckId, u, a[1], a[2])
       \cup forward_check(users, checks, lastCheckId, now, u, id, n)
       \cup cancel_forward(users, checks, lastCheckId, now, u, id)
       \cup cancel_issuance(users, checks, lastCheckId, now, u, id)
       \cup revoke_incoming_decision(users, checks, lastCheckId, u, id)

\* C38: every engine operation that returns failure (accept or deny by
\* check id or by issuer name, forward, cancel_forward, cancel_issuance,
\* revoke_incoming_decision) leaves the whole store unchanged: no check row
\* is modified or removed and no party is created.
C38_FailureChangesNothing ==
    \A u \in CallerIds, a \in LookupArgs, id \in CheckArgs, n \in NameInputs :
       \A o \in EngineOutcomes(u, a, id, n) :
          ~o.ok => o.checks = checks /\ o.users = users

\* what holds of a failure: the checks table is unchanged, and so is the
\* users table unless the call was an accept or deny by issuer name
FailureLeavesChecks ==
    \A u \in CallerIds, a \in LookupArgs, id \in CheckArgs, n \in NameInputs :
       \A o \in EngineOutcomes(u, a, id, n) :
          ~o.ok =>
             /\ o.checks = checks
             /\ o.lastCheckId = lastCheckId
             /\ o.users # users =>
                   /\ a[1] \in {NULL, 0} /\ a[2] \in NameInputs
                   /\ o.msg \in {"Check not found or not available to accept.",
                                 "Check not found."}

\* the lists of one or more check ids a request may name
NamedIds == {ids \in IdLists : Truthy(ids) # <<>>}

\* no accept_check, deny_check by user u on an id of the list succeeds
NoneAcceptable(u, ids) ==
    \A i \in DOMAIN ids :
       \A e \in accept_check(users, checks, lastCheckId, u, ids[i], NoName) : ~e.ok

NoneDeniable(u, ids) ==
    \A i \in DOMAIN ids :
       \A e \in deny_check(users, checks, lastCheckId, u, ids[i], NoName) : ~e.ok

\* the revoke of user u finds no id of the list, or refuses it, or its
\* engine call fails
NoneRevocable(u, ids) ==
    \A i \in DOMAIN ids :
       \A c \in checks :
          c.id = ids[i] =>
             \A e \in revoke_dispatch(users, checks, lastCheckId, now, u, c.id,
                                      revoke_branch(c, u)) : ~e.ok

\* the router made one engine call of operation op for each id, in order
CalledOncePerId(o, op, ids) ==
    o.calls = [i \in DOMAIN ids |-> <<op, ids[i]>>]

\* C39: for an ACCEPT_CHECK, DENY_CHECK or REVOKE_OP request naming one or
\* more check ids the operation is applied once to each id, and the router
\* reports success only if at least one of the engine calls succeeded: when
\* every targeted check is ineligible it reports success = false.
C39_BatchSuccess ==
    \A u \in CallerIds, ids \in NamedIds :
       /\ \A o \in execute_accept_check(users, checks, lastCheckId, u, FALSE, ids) :
             /\ CalledOncePerId(o, "accept_check", Truthy(ids))
             /\ NoneAcceptable(u, Truthy(ids)) => ~o.ok
       /\ \A o \in execute_deny_check(users, checks, lastCheckId, u, ids) :
             /\ CalledOncePerId(o, "deny_check", Truthy(ids))
             /\ NoneDeniable(u, Truthy(ids)) => ~o.ok
       /\ \A o \in execute_revoke_operation(users, checks, lastCheckId, now, u, ids) :
             /\ Len(o.results) = Len(Truthy(ids))
             /\ Len(o.calls) <= Len(Truthy(ids))
             /\ NoneRevocable(u, Truthy(ids)) => ~o.ok

\* what the router does: each operation is applied once to each id; REVOKE_OP
\* reports success exactly when one of its calls succeeded, ACCEPT_CHECK and
\* DENY_CHECK report success for every list of ids
BatchAlwaysSucceeds ==
    \A u \in CallerIds, ids \in NamedIds :
       /\ \A o \in execute_accept_check(users, checks, lastCheckId, u, FALSE, ids) :
             CalledOncePerId(o, "accept_check", Truthy(ids)) /\ o.ok
       /\ \A o \in execute_deny_check(users, checks, lastCheckId, u, ids) :
             CalledOncePerId(o, "deny_check", Truthy(ids)) /\ o.ok
       /\ \A o \in execute_revoke_operation(users, checks, lastCheckId, now, u, ids) :
             /\ Len(o.results) = Len(Truthy(ids))
             /\ Len(o.calls) <= Len(Truthy(ids))
             /\ o.ok <=> o.logs # <<>>
             /\ NoneRevocable(u, Truthy(ids)) => ~o.ok

\* the clock reading at which issue_check created the check: issue_check
\* is called with no custom date and days_to_maturity = 0, so it stored
\* that reading as maturity_date, which no operation changes
CreatedAt(c) == c.maturity_date

\* C40: the issuer can reverse an issuance only during the hour that follows
\* the issuance: cancel_issuance never succeeds more than one hour after the
\* time the check was created by issue.
C40_CancelWithinHourOfIssue ==
    \A u \in CallerIds, id \in CheckArgs :
       \A o \in cancel_issuance(users, checks, lastCheckId, now, u, id) :
          o.ok => \A c \in checks : c.id = id => now - CreatedAt(c) <= WindowTicks

\* what cancel_issuance tests: the time since issued_at, which forward
\* re-stamps
CancelWithinHourOfIssuedAt ==
    \A u \in CallerIds, id \in CheckArgs :
       \A o \in cancel_issuance(users, checks, lastCheckId, now, u, id) :
          o.ok => \A c \in checks : c.id = id => now - c.issued_at <= WindowTicks

====
